---------------------------- MODULE Spec2Model ----------------------------
(***************************************************************************)
(* Study Assistant: the Streamlit script app.py (one script run per user   *)
(* interaction of a session), the four agents of agents.py behind          *)
(* _pipeline_lock, the cached backend handle of llm_provider.py and the    *)
(* Chroma index of retriever.py.                                           *)
(*                                                                         *)
(* A session runs its script runs one after the other; the runs of         *)
(* different sessions are threads of one process and interleave.           *)
(*                                                                         *)
(* Texts.  A widget input is a sequence of characters.  An extracted PDF   *)
(* text is a separator-free string and is represented by its length (the   *)
(* empty string is 0); a chunk is the slice [start, start + size) of it.   *)
(***************************************************************************)
EXTENDS Integers, Sequences, FiniteSets, TLC

\* ------------------------------------------------------------------ bounds
\* sessions (browser tabs) of the process
NSessions == 2
\* script runs started in the process, all sessions together
MaxRuns == 2

\* retrieval on its own: entries of one chunk in the index, largest k asked
MaxCopies == 2
MaxK == 4
\* the splitter on its own: most pages of a text
MaxPages == 3

\* ------------------------------------------------------- program constants
\* len("\n\n"), the separator extract_text_from_pdf puts between two pages
PageSeparatorLen == 2
ChunkSize == 800
ChunkOverlap == 150
RetrieveK == 3
\* chromadb's max_batch_size (thousands in a real build), scaled to the
\* document sizes below: Chroma.from_documents embeds and writes one batch
\* of at most this many chunks at a time.
MaxBatchSize == 2

Sessions == 1 .. NSessions
NoSession == 0
NoLock == 0
LockIds == Sessions

NoFile == -1
DocTexts == {2000}
Inputs == { <<" ">>, <<" ", "a">> }
NumQs == {5}
Difficulties == {"medium"}
Causes == {"ConnectionError"}
\* lengths of the pages of the texts given to the splitter on its own; a
\* page is free of separators, a text is its pages joined by "\n\n"
PageLens == {100, 700, 798, 799, 1000, 2000}
RECURSIVE TextsOf(_)
TextsOf(n) ==
    IF n = 0 THEN { <<>> }
    ELSE TextsOf(n - 1) \cup
         { Append(t, p) : t \in { u \in TextsOf(n - 1) : Len(u) = n - 1 }, p \in PageLens }
Texts == TextsOf(MaxPages)
\* queries given to retrieve_relevant_chunks when it is exercised on its own
Queries == { <<"a">>, <<"a", "b">>, <<"a", "b", "c">> }

Explain == "Explain Concept"
Summarize == "Summarize Notes"
Quiz == "Generate Quiz"
Rag == "Chat with Notes (RAG)"
Features == {Explain, Summarize, Quiz, Rag}

VARIABLES
    pc,                \* position of each session's current script run
    runs,              \* number of script runs started in the process
    script_globals,    \* the Lock bound to _app_request_lock in the run's globals()
    app_request_lock,  \* holder of every Lock object made by app.py line 21
    pipeline_lock,     \* holder of agents._pipeline_lock
    llm_cached,        \* st.cache_resource holds the ChatOllama of get_llm
    session_state,     \* st.session_state of each session
    frame,             \* local names of the current script run
    chroma,            \* persisted collection: chunk -> number of entries holding it
    arrival            \* sessions whose handler reached its acquire(), oldest first

vars == << pc, runs, script_globals, app_request_lock, pipeline_lock, llm_cached,
           session_state, frame, chroma, arrival >>

\* --------------------------------------------------------------- strings
IsSpace(c) == c = " "

RECURSIVE LStrip(_)
LStrip(s) == IF s # <<>> /\ IsSpace(Head(s)) THEN LStrip(Tail(s)) ELSE s

RECURSIVE RStrip(_)
RStrip(s) ==
    IF s # <<>> /\ IsSpace(s[Len(s)]) THEN RStrip(SubSeq(s, 1, Len(s) - 1)) ELSE s

\* str.strip()
Strip(s) == RStrip(LStrip(s))

\* `not question or not question.strip()`
IsBlank(s) == s = <<>> \/ Strip(s) = <<>>

\* ------------------------------------------------------------- retriever
\* RecursiveCharacterTextSplitter(chunk_size, chunk_overlap).split_text on a
\* separator-free text of n characters: windows of ChunkSize characters,
\* each starting ChunkSize - ChunkOverlap after the one before.
RECURSIVE SplitFrom(_, _)
SplitFrom(n, start) ==
    IF n - start <= ChunkSize
    THEN << [doc |-> n, start |-> start, size |-> n - start] >>
    ELSE << [doc |-> n, start |-> start, size |-> ChunkSize] >>
         \o SplitFrom(n, start + (ChunkSize - ChunkOverlap))

SplitText(n) == IF n = 0 THEN <<>> ELSE SplitFrom(n, 0)

\* ---- split_text on a text with separators: pages joined by "\n\n"
\* A split is a slice of the text: where it starts, its length, and how many
\* of its first characters are newlines (lead). A chunk is a slice too.

\* _split_text_with_regex(text, "\n\n", keep_separator=True): the first page,
\* then every other page with the separator before it
RECURSIVE PageSplitsFrom(_, _, _)
PageSplitsFrom(pages, i, start) ==
    IF i > Len(pages) THEN <<>>
    ELSE LET lead == IF i = 1 THEN 0 ELSE PageSeparatorLen
             size == lead + pages[i]
         IN << [start |-> start, size |-> size, lead |-> lead] >>
            \o PageSplitsFrom(pages, i + 1, start + size)

\* _split_text_with_regex("\n\n" + page, "\n", keep_separator=True):
\* "\n" and "\n" + page (the empty first split is filtered out)
NewlineSplits(piece) ==
    << [start |-> piece.start, size |-> 1, lead |-> 1],
       [start |-> piece.start + 1, size |-> piece.size - 1, lead |-> piece.lead - 1] >>

RECURSIVE Total(_)
Total(current_doc) ==
    IF current_doc = <<>> THEN 0 ELSE Head(current_doc).size + Total(Tail(current_doc))

\* the whitespace text.strip() removes at the front of the joined splits
RECURSIVE LeadingSpace(_)
LeadingSpace(current_doc) ==
    IF current_doc = <<>> THEN 0
    ELSE IF Head(current_doc).lead = Head(current_doc).size
         THEN Head(current_doc).size + LeadingSpace(Tail(current_doc))
         ELSE Head(current_doc).lead

\* _join_docs: the splits joined and stripped; None (no chunk) when empty
JoinDocs(current_doc) ==
    LET lead == LeadingSpace(current_doc)
        size == Total(current_doc) - lead
    IN IF size = 0 THEN <<>>
       ELSE << [start |-> current_doc[1].start + lead, size |-> size] >>

\* the while loop of _merge_splits: splits are dropped from the front until
\* what is kept is no longer than chunk_overlap and the next split fits
RECURSIVE DropFront(_, _)
DropFront(current_doc, len) ==
    IF \/ Total(current_doc) > ChunkOverlap
       \/ (Total(current_doc) + len > ChunkSize /\ Total(current_doc) > 0)
    THEN DropFront(Tail(current_doc), len)
    ELSE current_doc

\* _merge_splits(splits, "") (the separator is kept in the splits)
RECURSIVE MergeSplits(_, _, _)
MergeSplits(splits, current_doc, docs) ==
    IF splits = <<>> THEN docs \o JoinDocs(current_doc)
    ELSE LET d == Head(splits) IN
         IF Total(current_doc) + d.size > ChunkSize /\ current_doc # <<>>
         THEN MergeSplits(Tail(splits), Append(DropFront(current_doc, d.size), d),
                          docs \o JoinDocs(current_doc))
         ELSE MergeSplits(Tail(splits), Append(current_doc, d), docs)

\* faulty variant: the window moved on by half a chunk only
RECURSIVE WindowsHalfStep(_, _)
WindowsHalfStep(piece, offset) ==
    LET left == piece.size - offset
        size == IF left <= ChunkSize THEN left ELSE ChunkSize
        strip == IF offset < piece.lead THEN piece.lead - offset ELSE 0
        doc == IF size <= strip THEN <<>>
               ELSE << [start |-> piece.start + offset + strip, size |-> size - strip] >>
    IN IF left <= ChunkSize THEN doc
       ELSE doc \o WindowsHalfStep(piece, offset + ChunkSize \div 2)

\* the separator "": the splits are the characters of the piece, and
\* _merge_splits makes of them windows of ChunkSize characters, each
\* starting ChunkSize - ChunkOverlap after the one before (as SplitFrom),
\* each stripped of the newlines at its front
RECURSIVE WindowsFrom(_, _)
WindowsFrom(piece, offset) ==
    LET left == piece.size - offset
        size == IF left <= ChunkSize THEN left ELSE ChunkSize
        strip == IF offset < piece.lead THEN piece.lead - offset ELSE 0
        doc == IF size <= strip THEN <<>>
               ELSE << [start |-> piece.start + offset + strip, size |-> size - strip] >>
    IN IF left <= ChunkSize THEN doc
       ELSE doc \o WindowsFrom(piece, offset + (ChunkSize - ChunkOverlap))

MergeGood(good_splits) ==
    IF good_splits = <<>> THEN <<>> ELSE MergeSplits(good_splits, <<>>, <<>>)

\* _split_text: the loop over the splits, and the call of itself on a split
\* of chunk_size characters or more with the separators that are left
\* (level 2: "\n", " ", ""; level 3: " ", ""). A page holds no " ".
RECURSIVE SplitLoop(_, _, _)
RECURSIVE SplitPiece(_, _)
SplitPiece(piece, level) ==
    IF level = 2 /\ piece.lead > 0
    THEN SplitLoop(NewlineSplits(piece), <<>>, 3)
    ELSE WindowsFrom(piece, 0)

SplitLoop(splits, good_splits, level) ==
    IF splits = <<>> THEN MergeGood(good_splits)
    ELSE IF Head(splits).size < ChunkSize
         THEN SplitLoop(Tail(splits), Append(good_splits, Head(splits)), level)
         ELSE MergeGood(good_splits) \o SplitPiece(Head(splits), level)
              \o SplitLoop(Tail(splits), <<>>, level)

\* splitter.split_text(text) for a text given by its pages
SplitPages(pages) ==
    IF pages = <<>> THEN <<>>
    ELSE IF Len(pages) = 1
         THEN WindowsFrom([start |-> 0, size |-> pages[1], lead |-> 0], 0)
         ELSE SplitLoop(PageSplitsFrom(pages, 1, 0), <<>>, 2)

AllChunks == UNION { { SplitText(d)[i] : i \in 1 .. Len(SplitText(d)) } : d \in DocTexts }

EmptyIndex == [c \in AllChunks |-> 0]

\* the chunks of batch b (0-based) of a document's chunk list
BatchOf(chunks, b) ==
    SubSeq(chunks, b * MaxBatchSize + 1,
           IF (b + 1) * MaxBatchSize < Len(chunks) THEN (b + 1) * MaxBatchSize
           ELSE Len(chunks))

NumBatches(chunks) == (Len(chunks) + MaxBatchSize - 1) \div MaxBatchSize

\* collection.upsert of one batch: every chunk is written under a fresh
\* uuid, so it is a new entry whatever the collection already holds
Upsert(index, batch) ==
    [c \in AllChunks |->
        index[c] + Cardinality({ i \in 1 .. Len(batch) : batch[i] = c })]

\* vectordb.similarity_search(query, k): both texts go through the same
\* embedding; here the embedding of a text is a point on a line (a query by
\* its length, a chunk by its ordinal) and the distance is the gap.
EmbedQuery(q) == Len(q)
EmbedChunk(c) == c.start \div (ChunkSize - ChunkOverlap)
Distance(q, c) ==
    IF EmbedQuery(q) >= EmbedChunk(c) THEN EmbedQuery(q) - EmbedChunk(c)
    ELSE EmbedChunk(c) - EmbedQuery(q)

Closer(q, c1, c2) ==
    \/ Distance(q, c1) < Distance(q, c2)
    \/ /\ Distance(q, c1) = Distance(q, c2)
       /\ \/ c1.doc < c2.doc
          \/ c1.doc = c2.doc /\ c1.start <= c2.start

\* faulty variant: the ranking upside down (the farthest entry first)
RECURSIVE SimilaritySearchFarthestFirst(_, _, _)
SimilaritySearchFarthestFirst(index, q, k) ==
    LET held == { c \in AllChunks : index[c] > 0 } IN
    IF k = 0 \/ held = {} THEN <<>>
    ELSE LET worst == CHOOSE c \in held : \A d \in held : Closer(q, d, c)
         IN << worst >> \o
            SimilaritySearchFarthestFirst([index EXCEPT ![worst] = @ - 1], q, k - 1)

RECURSIVE SimilaritySearch(_, _, _)
SimilaritySearch(index, q, k) ==
    LET held == { c \in AllChunks : index[c] > 0 } IN
    IF k = 0 \/ held = {} THEN <<>>
    ELSE LET best == CHOOSE c \in held : \A d \in held : Closer(q, c, d)
         IN << best >> \o
            SimilaritySearch([index EXCEPT ![best] = @ - 1], q, k - 1)

ParagraphSeparator == [sep |-> "\n\n"]

\* faulty variant: the chunks joined last first
RECURSIVE JoinParagraphsReversed(_)
JoinParagraphsReversed(chunks) ==
    IF chunks = <<>> THEN <<>>
    ELSE IF Len(chunks) = 1 THEN << chunks[1] >>
    ELSE JoinParagraphsReversed(Tail(chunks)) \o << ParagraphSeparator, chunks[1] >>

\* "\n\n".join([c.page_content for c in chunks])
RECURSIVE JoinParagraphs(_)
JoinParagraphs(chunks) ==
    IF chunks = <<>> THEN <<>>
    ELSE IF Len(chunks) = 1 THEN << chunks[1] >>
    ELSE << chunks[1], ParagraphSeparator >> \o JoinParagraphs(Tail(chunks))

\* ---------------------------------------------------------------- agents
AgentOf(feature) ==
    CASE feature = Explain -> "explanation_agent"
      [] feature = Summarize -> "summarization_agent"
      [] feature = Quiz -> "quiz_agent"
      [] feature = Rag -> "rag_answer_agent"

NoPrompt == [template |-> "none"]
NoReply == [kind |-> "none"]

\* faulty variant: the chain's input kept in a module-level name that every
\* caller overwrites before it waits for the lock: the result is that of the
\* caller who wrote last
ResultOfLastCaller(prompt) ==
    LET callers == { t \in Sessions : pc[t] \in {"with_lock", "invoke"} }
        last == CHOOSE t \in callers : \A u \in callers : u <= t
    IN [kind |-> "text", prompt |-> frame[last].prompt]

\* return str(result): the backend's output for the filled prompt
ResultText(prompt) == [kind |-> "text", prompt |-> prompt]

\* return f"[Error from <agent>] {e}"
ErrorText(agent, cause) == [kind |-> "error", agent |-> agent, cause |-> cause]

\* faulty variant: the `with` statement missing: the backend is entered at once
PipelineLockIgnored == TRUE

\* the guard of `with _pipeline_lock:` on entry
PipelineLockFree == pipeline_lock = NoSession

\* faulty variant: acquire() in place of `with`, and no release
WithExitKeepsLock(s) == s

\* `with _pipeline_lock:` on exit, normal or by exception: the lock's holder after it
WithExit(s) == NoSession

\* ------------------------------------------------------------------- app
\* the script's globals() at the start of a script run: Streamlit executes
\* the script of every run in a new __main__ module, so no name of an
\* earlier run is bound in it
GlobalsAtRunStart(s) == NoLock

\* the Lock object a run makes at line 21: an object no other run refers to.
\* A session has one run at a time and the Lock of its earlier run is out of
\* reach once that run is over, so the object is named by the session.
NewLock(s) == s

\* Lock.acquire() returns only when the lock is free
LockFree(lock) == app_request_lock[lock] = NoSession

\* faulty variant: release() outside a finally clause, or forgotten
ReleaseSkipped(lock) == app_request_lock

\* Lock.release() in the finally clause
Released(lock) == [app_request_lock EXCEPT ![lock] = NoSession]

NewFrame ==
    [feature |-> "none", widget |-> <<>>, num |-> 0, difficulty |-> "none",
     text |-> <<>>, chunks |-> <<>>, batch |-> 0, prompt |-> NoPrompt, reply |-> NoReply,
     invoke_failed |-> FALSE, processed |-> FALSE, exc |-> "none"]

UserEntry(text) == [role |-> "user", text |-> text]
AssistantEntry(reply) == [role |-> "assistant", text |-> reply]

TypeOK ==
    /\ pc \in [Sessions -> {"idle", "from_documents", "feature", "warning",
                            "acquire", "retrieve", "get_llm", "with_lock", "invoke",
                            "finally", "done"}]
    /\ runs \in 0 .. MaxRuns
    /\ script_globals \in [Sessions -> LockIds \cup {NoLock}]
    /\ app_request_lock \in [LockIds -> Sessions \cup {NoSession}]
    /\ pipeline_lock \in Sessions \cup {NoSession}
    /\ llm_cached \in BOOLEAN
    /\ \A s \in Sessions :
          /\ session_state[s].pdf_text \in DocTexts \cup {0}
          /\ session_state[s].llm_busy \in BOOLEAN
          /\ session_state[s].explain_input_uid \in Nat
          /\ session_state[s].rag_input_uid \in Nat
    /\ chroma \in [AllChunks -> Nat]
    /\ arrival \in Seq(Sessions)

Init ==
    /\ pc = [s \in Sessions |-> "idle"]
    /\ runs = 0
    /\ script_globals = [s \in Sessions |-> NoLock]
    /\ app_request_lock = [l \in LockIds |-> NoSession]
    /\ pipeline_lock = NoSession
    /\ llm_cached = FALSE
    /\ session_state = [s \in Sessions |->
          [pdf_text |-> 0, explain_history |-> <<>>, rag_history |-> <<>>,
           outputs |-> <<>>, llm_busy |-> FALSE,
           explain_input_uid |-> 0, rag_input_uid |-> 0]]
    /\ frame = [s \in Sessions |-> NewFrame]
    /\ chroma = EmptyIndex
    /\ arrival = <<>>

\* A script run starts: lines 20-21 bind _app_request_lock, lines 34-42 are
\* setdefault calls (no effect on keys already set), lines 48-60 store the
\* text of the uploaded PDF, line 63 calls create_vector_store_from_text,
\* which splits the text (retriever.py 23-30).
StartRun(s) ==
    /\ pc[s] \in {"idle", "done"}
    /\ runs < MaxRuns
    /\ runs' = runs + 1
    /\ script_globals' = [script_globals EXCEPT ![s] =
          IF GlobalsAtRunStart(s) = NoLock THEN NewLock(s) ELSE GlobalsAtRunStart(s)]
    /\ \E uploaded_pdf \in DocTexts \cup {NoFile} :
          IF uploaded_pdf # NoFile
          THEN /\ session_state' = [session_state EXCEPT ![s].pdf_text = uploaded_pdf]
               /\ frame' = [frame EXCEPT ![s].chunks = SplitText(uploaded_pdf)]
               /\ pc' = [pc EXCEPT ![s] =
                     IF SplitText(uploaded_pdf) = <<>> THEN "feature"
                     ELSE "from_documents"]
          ELSE /\ pc' = [pc EXCEPT ![s] = "feature"]
               /\ UNCHANGED << session_state, frame >>
    /\ UNCHANGED << app_request_lock, pipeline_lock, llm_cached, chroma, arrival >>

\* an exception leaves the script run (outside any try): the run is over
\* and its local names are gone
Raise(s, what) ==
    /\ frame' = [frame EXCEPT ![s] = NewFrame]
    /\ pc' = [pc EXCEPT ![s] = "done"]

\* create_vector_store_from_text from the embedder on (lines 32-39):
\* Chroma.from_documents embeds one batch, then writes it; a failure of the
\* embedder (when it is built, or on a batch) leaves the run before the
\* batch is written
FromDocuments(s) ==
    /\ pc[s] = "from_documents"
    /\ \/ /\ chroma' = Upsert(chroma, BatchOf(frame[s].chunks, frame[s].batch))
          /\ IF frame[s].batch + 1 >= NumBatches(frame[s].chunks)
             THEN /\ frame' = [frame EXCEPT ![s] = NewFrame]
                  /\ pc' = [pc EXCEPT ![s] = "feature"]
             ELSE /\ frame' = [frame EXCEPT ![s].batch = @ + 1]
                  /\ pc' = [pc EXCEPT ![s] = "from_documents"]
       \/ /\ Raise(s, "embed_documents")
          /\ UNCHANGED chroma
    /\ UNCHANGED << runs, script_globals, app_request_lock, pipeline_lock, llm_cached,
                    session_state, arrival >>


\* a typed text and an extracted PDF text, as values of one prompt slot
Typed(chars) == [chars |-> chars]
Pdf(n) == [pdf |-> n]

EnterHandler(s) ==
    /\ pc' = [pc EXCEPT ![s] = "acquire"]
    /\ arrival' = Append(arrival, s)

LeaveScript(s) ==
    /\ pc' = [pc EXCEPT ![s] = "done"]
    /\ UNCHANGED << frame, arrival >>

\* a submission is turned down: what is left of the run is st.warning(...)
Reject(s, feature, text) ==
    /\ frame' = [frame EXCEPT ![s].feature = feature, ![s].widget = text]
    /\ pc' = [pc EXCEPT ![s] = "warning"]
    /\ UNCHANGED arrival

\* st.warning(...) at lines 100, 102 and 218: the script run ends
ShowWarning(s) ==
    /\ pc[s] = "warning"
    /\ frame' = [frame EXCEPT ![s] = NewFrame]
    /\ pc' = [pc EXCEPT ![s] = "done"]
    /\ UNCHANGED << runs, script_globals, app_request_lock, pipeline_lock, llm_cached,
                    session_state, chroma, arrival >>

\* faulty variant: the question is put into the history before it is looked at
ExplainFormAppendsFirst(s) ==
    /\ pc[s] = "feature"
    /\ \E question \in Inputs, submitted \in BOOLEAN :
          IF ~submitted
          THEN LeaveScript(s) /\ UNCHANGED session_state
          ELSE /\ session_state' = [session_state EXCEPT
                     ![s].explain_history = Append(@, UserEntry(Strip(question)))]
               /\ IF IsBlank(question) \/ session_state[s].llm_busy
                  THEN Reject(s, Explain, question)
                  ELSE /\ frame' = [frame EXCEPT ![s].feature = Explain,
                                                 ![s].widget = question]
                       /\ EnterHandler(s)
    /\ UNCHANGED << runs, script_globals, app_request_lock, pipeline_lock, llm_cached,
                    chroma >>

\* "Explain Concept", lines 79-103: the form and its guards
ExplainForm(s) ==
    /\ pc[s] = "feature"
    /\ \E question \in Inputs, submitted \in BOOLEAN :
          IF ~submitted THEN LeaveScript(s)
          ELSE IF IsBlank(question) \/ session_state[s].llm_busy
               THEN Reject(s, Explain, question)
               ELSE /\ frame' = [frame EXCEPT ![s].feature = Explain,
                                              ![s].widget = question]
                    /\ EnterHandler(s)
    /\ UNCHANGED << runs, script_globals, app_request_lock, pipeline_lock, llm_cached,
                    session_state, chroma >>

\* "Summarize Notes", lines 131-137
SummarizePage(s) ==
    /\ pc[s] = "feature"
    /\ \E clicked \in BOOLEAN :
          IF session_state[s].pdf_text # 0 /\ clicked
          THEN /\ frame' = [frame EXCEPT ![s].feature = Summarize]
               /\ EnterHandler(s)
          ELSE LeaveScript(s)
    /\ UNCHANGED << runs, script_globals, app_request_lock, pipeline_lock, llm_cached,
                    session_state, chroma >>

\* "Generate Quiz", lines 160-170
QuizPage(s) ==
    /\ pc[s] = "feature"
    /\ \E content_input \in Inputs, num_q \in NumQs, difficulty \in Difficulties,
          clicked \in BOOLEAN :
          IF clicked
          THEN /\ frame' = [frame EXCEPT ![s].feature = Quiz, ![s].widget = content_input,
                                         ![s].num = num_q, ![s].difficulty = difficulty]
               /\ EnterHandler(s)
          ELSE LeaveScript(s)
    /\ UNCHANGED << runs, script_globals, app_request_lock, pipeline_lock, llm_cached,
                    session_state, chroma >>

\* "Chat with Notes (RAG)", lines 197-219
RagForm(s) ==
    /\ pc[s] = "feature"
    /\ \E query \in Inputs, submitted \in BOOLEAN :
          IF session_state[s].pdf_text = 0 \/ ~submitted THEN LeaveScript(s)
          ELSE IF IsBlank(query)
               THEN Reject(s, Rag, query)
               ELSE /\ frame' = [frame EXCEPT ![s].feature = Rag, ![s].widget = query]
                    /\ EnterHandler(s)
    /\ UNCHANGED << runs, script_globals, app_request_lock, pipeline_lock, llm_cached,
                    session_state, chroma >>

\* _app_request_lock.acquire(): blocks until the run's lock is free
Acquire(s) ==
    /\ pc[s] = "acquire"
    /\ LockFree(script_globals[s])
    /\ app_request_lock' = [app_request_lock EXCEPT ![script_globals[s]] = s]

\* lines 108-116: up to the call of explanation_agent(input_text)
ExplainAcquire(s) ==
    /\ frame[s].feature = Explain
    /\ Acquire(s)
    /\ LET input_text == Strip(frame[s].widget) IN
          /\ session_state' = [session_state EXCEPT
                ![s].llm_busy = TRUE,
                ![s].explain_history = Append(@, UserEntry(input_text))]
          /\ frame' = [frame EXCEPT ![s].prompt =
                [template |-> "explain", question |-> input_text, context |-> <<>>]]
    /\ pc' = [pc EXCEPT ![s] = "get_llm"]
    /\ UNCHANGED << runs, script_globals, pipeline_lock, llm_cached, chroma, arrival >>

\* lines 139-144: up to the call of summarization_agent(pdf_text)
SummarizeAcquire(s) ==
    /\ frame[s].feature = Summarize
    /\ Acquire(s)
    /\ session_state' = [session_state EXCEPT ![s].llm_busy = TRUE]
    /\ frame' = [frame EXCEPT ![s].prompt =
          [template |-> "summary", notes |-> Pdf(session_state[s].pdf_text)]]
    /\ pc' = [pc EXCEPT ![s] = "get_llm"]
    /\ UNCHANGED << runs, script_globals, pipeline_lock, llm_cached, chroma, arrival >>

\* lines 172-182: content_to_use = content_input.strip() or pdf_text
QuizAcquire(s) ==
    /\ frame[s].feature = Quiz
    /\ Acquire(s)
    /\ LET typed == Strip(frame[s].widget)
           content_to_use == IF typed # <<>> THEN Typed(typed)
                             ELSE Pdf(session_state[s].pdf_text)
       IN IF content_to_use = Pdf(0)
          THEN /\ pc' = [pc EXCEPT ![s] = "finally"]
               /\ UNCHANGED << session_state, frame >>
          ELSE /\ session_state' = [session_state EXCEPT ![s].llm_busy = TRUE]
               /\ frame' = [frame EXCEPT ![s].prompt =
                     [template |-> "quiz", num |-> frame[s].num,
                      content |-> content_to_use, difficulty |-> frame[s].difficulty]]
               /\ pc' = [pc EXCEPT ![s] = "get_llm"]
    /\ UNCHANGED << runs, script_globals, pipeline_lock, llm_cached, chroma, arrival >>

\* lines 221-227: up to the call of retrieve_relevant_chunks
RagAcquire(s) ==
    /\ frame[s].feature = Rag
    /\ Acquire(s)
    /\ LET q == Strip(frame[s].widget) IN
          /\ session_state' = [session_state EXCEPT
                ![s].llm_busy = TRUE,
                ![s].rag_history = Append(@, UserEntry(q))]
          /\ frame' = [frame EXCEPT ![s].prompt =
                [template |-> "rag", context |-> <<>>, question |-> q]]
    /\ pc' = [pc EXCEPT ![s] = "retrieve"]
    /\ UNCHANGED << runs, script_globals, pipeline_lock, llm_cached, chroma, arrival >>

\* an exception inside the handler's try: control goes to its finally clause
RaiseInTry(s, what) ==
    /\ frame' = [frame EXCEPT ![s].exc = what]
    /\ pc' = [pc EXCEPT ![s] = "finally"]

\* lines 228-229: retrieve_relevant_chunks(q, k=3) (retriever.py 62-66) and
\* the join of the chunks' texts; loading the store or embedding the query
\* may fail, and nothing in the handler catches it
RagRetrieve(s) ==
    /\ pc[s] = "retrieve"
    /\ \/ /\ LET chunks == SimilaritySearch(chroma, frame[s].prompt.question,
                                            RetrieveK)
             IN frame' = [frame EXCEPT ![s].chunks = chunks,
                                       ![s].prompt.context = JoinParagraphs(chunks)]
          /\ pc' = [pc EXCEPT ![s] = "get_llm"]
       \/ RaiseInTry(s, "retrieve_relevant_chunks")
    /\ UNCHANGED << runs, script_globals, app_request_lock, pipeline_lock, llm_cached,
                    session_state, chroma, arrival >>

\* agents, first two lines of each (38-39, 67-68, 103-104, 139-140), before
\* the try: get_llm() returns the cached handle, or builds it (and the build
\* may fail: the exception leaves the agent)
GetLLM(s) ==
    /\ pc[s] = "get_llm"
    /\ \/ /\ llm_cached' = TRUE
          /\ pc' = [pc EXCEPT ![s] = "with_lock"]
          /\ UNCHANGED frame
       \/ /\ ~llm_cached
          /\ RaiseInTry(s, "get_llm")
          /\ UNCHANGED llm_cached
    /\ UNCHANGED << runs, script_globals, app_request_lock, pipeline_lock,
                    session_state, chroma, arrival >>

\* `with _pipeline_lock:` entered
PipelineAcquire(s) ==
    /\ pc[s] = "with_lock"
    /\ PipelineLockFree
    /\ pipeline_lock' = s
    /\ pc' = [pc EXCEPT ![s] = "invoke"]
    /\ UNCHANGED << runs, script_globals, app_request_lock, llm_cached, session_state,
                    frame, chroma, arrival >>

\* the rest of the try block once the agent has returned `reply`:
\* lines 117-123, 146-147, 184 and 232-235 (fr: the run's local names, with
\* the note of a failed invoke when there was one)
HandlerTail(fr, s, reply) ==
    CASE frame[s].feature = Explain ->
           /\ session_state' = [session_state EXCEPT
                 ![s].explain_history = Append(@, AssistantEntry(reply)),
                 ![s].explain_input_uid = @ + 1]
           /\ frame' = [fr EXCEPT ![s].reply = reply, ![s].processed = TRUE]
      [] frame[s].feature = Summarize ->
           /\ session_state' = [session_state EXCEPT
                 ![s].outputs = Append(@, [tag |-> "summary", text |-> reply])]
           /\ frame' = [fr EXCEPT ![s].reply = reply]
      [] frame[s].feature = Quiz ->
           /\ session_state' = [session_state EXCEPT
                 ![s].outputs = Append(@, [tag |-> "quiz", text |-> reply])]
           /\ frame' = [fr EXCEPT ![s].reply = reply]
      [] frame[s].feature = Rag ->
           /\ session_state' = [session_state EXCEPT
                 ![s].rag_history = Append(@, AssistantEntry(reply)),
                 ![s].rag_input_uid = @ + 1]
           /\ frame' = [fr EXCEPT ![s].reply = reply, ![s].processed = TRUE]

\* pipeline.invoke(...) returns, the `with` block is left, the agent returns
\* str(result) and the handler goes on to the end of its try block
InvokeReturns(s) ==
    /\ pc[s] = "invoke"
    /\ pipeline_lock' = WithExit(s)
    /\ HandlerTail(frame, s, ResultText(frame[s].prompt))
    /\ pc' = [pc EXCEPT ![s] = "finally"]
    /\ arrival' = SelectSeq(arrival, LAMBDA x : x # s)
    /\ UNCHANGED << runs, script_globals, app_request_lock, llm_cached, chroma >>

\* faulty variant: the agent without its try/except: the exception of
\* pipeline.invoke reaches the handler
InvokeFailsUncaught(s) ==
    /\ pc[s] = "invoke"
    /\ pipeline_lock' = WithExit(s)
    /\ frame' = [frame EXCEPT ![s].invoke_failed = TRUE, ![s].exc = "invoke"]
    /\ pc' = [pc EXCEPT ![s] = "finally"]
    /\ arrival' = SelectSeq(arrival, LAMBDA x : x # s)
    /\ UNCHANGED << runs, script_globals, app_request_lock, llm_cached, session_state,
                    chroma >>

\* pipeline.invoke(...) raises, the `with` block is left, the except clause
\* returns the error text and the handler goes on with it as the reply
InvokeFails(s) ==
    /\ pc[s] = "invoke"
    /\ pipeline_lock' = WithExit(s)
    /\ \E e \in Causes :
          HandlerTail([frame EXCEPT ![s].invoke_failed = TRUE], s,
                      ErrorText(AgentOf(frame[s].feature), e))
    /\ pc' = [pc EXCEPT ![s] = "finally"]
    /\ arrival' = SelectSeq(arrival, LAMBDA x : x # s)
    /\ UNCHANGED << runs, script_globals, app_request_lock, llm_cached, chroma >>

\* faulty variant: llm_busy reset after the try statement, not in its
\* finally clause: an exception passes it by
FinallyKeepsBusy(s) ==
    /\ pc[s] = "finally"
    /\ session_state' = [session_state EXCEPT ![s].llm_busy =
          IF frame[s].exc = "none" THEN FALSE ELSE @]
    /\ app_request_lock' = Released(script_globals[s])
    /\ pc' = [pc EXCEPT ![s] = "done"]
    /\ frame' = [frame EXCEPT ![s] = NewFrame]
    /\ arrival' = SelectSeq(arrival, LAMBDA x : x # s)
    /\ UNCHANGED << runs, script_globals, pipeline_lock, llm_cached, chroma >>

\* the finally clause of each handler (124-126, 148-150, 185-187, 236-238)
\* and what follows it: st.rerun() if processed, the pending exception if
\* there is one; either way the script run is over
Finally(s) ==
    /\ pc[s] = "finally"
    /\ session_state' = [session_state EXCEPT ![s].llm_busy = FALSE]
    /\ app_request_lock' = Released(script_globals[s])
    /\ pc' = [pc EXCEPT ![s] = "done"]
    /\ frame' = [frame EXCEPT ![s] = NewFrame]
    /\ arrival' = SelectSeq(arrival, LAMBDA x : x # s)
    /\ UNCHANGED << runs, script_globals, pipeline_lock, llm_cached, chroma >>

Step(s) ==
    \/ FromDocuments(s)
    \/ ExplainForm(s)
    \/ SummarizePage(s)
    \/ QuizPage(s)
    \/ RagForm(s)
    \/ ShowWarning(s)
    \/ ExplainAcquire(s)
    \/ SummarizeAcquire(s)
    \/ QuizAcquire(s)
    \/ RagAcquire(s)
    \/ RagRetrieve(s)
    \/ GetLLM(s)
    \/ PipelineAcquire(s)
    \/ InvokeReturns(s)
    \/ InvokeFails(s)
    \/ Finally(s)

Next == \E s \in Sessions : StartRun(s) \/ Step(s)

Spec == Init /\ [][Next]_vars


\* ------------------------------------------------- retrieval on its own
\* retrieve_relevant_chunks(query, k) called on any state of the persisted
\* index, for any query and any k >= 1: the index is what earlier runs left
\* in CHROMA_DIR, the call's arguments and result are local names of the run
InitRetrieve ==
    /\ pc = [s \in Sessions |-> "idle"]
    /\ runs = 0
    /\ script_globals = [s \in Sessions |-> NoLock]
    /\ app_request_lock = [l \in LockIds |-> NoSession]
    /\ pipeline_lock = NoSession
    /\ llm_cached = FALSE
    /\ session_state = [s \in Sessions |->
          [pdf_text |-> 0, explain_history |-> <<>>, rag_history |-> <<>>,
           outputs |-> <<>>, llm_busy |-> FALSE,
           explain_input_uid |-> 0, rag_input_uid |-> 0]]
    /\ frame = [s \in Sessions |-> NewFrame]
    /\ chroma \in [AllChunks -> 0 .. MaxCopies]
    /\ arrival = <<>>

RetrieveRelevantChunks(s) ==
    /\ \A t \in Sessions : frame[t] = NewFrame
    /\ \E query \in Queries, k \in 1 .. MaxK :
          frame' = [frame EXCEPT ![s].widget = query, ![s].num = k,
                                 ![s].chunks = SimilaritySearch(chroma, query, k)]
    /\ UNCHANGED << pc, runs, script_globals, app_request_lock, pipeline_lock,
                    llm_cached, session_state, chroma, arrival >>

\* the caller is done with the result: its local names go out of scope
RetrieveReturn(s) ==
    /\ frame[s] # NewFrame
    /\ frame' = [frame EXCEPT ![s] = NewFrame]
    /\ UNCHANGED << pc, runs, script_globals, app_request_lock, pipeline_lock,
                    llm_cached, session_state, chroma, arrival >>

NextRetrieve ==
    \E s \in Sessions : RetrieveRelevantChunks(s) \/ RetrieveReturn(s)

SpecRetrieve == InitRetrieve /\ [][NextRetrieve]_vars

\* ------------------------------------------------- the splitter on its own
\* create_vector_store_from_text(text) up to line 30, for any text: the
\* chunks are local names of the call, which is then at the embedder
CreateChunks(s) ==
    /\ \A t \in Sessions : pc[t] = "idle"
    /\ \E text \in Texts :
          frame' = [frame EXCEPT ![s].text = text, ![s].chunks = SplitPages(text)]
    /\ pc' = [pc EXCEPT ![s] = "from_documents"]
    /\ UNCHANGED << runs, script_globals, app_request_lock, pipeline_lock,
                    llm_cached, session_state, chroma, arrival >>

\* the call is over: its local names go out of scope
CreateChunksReturn(s) ==
    /\ pc[s] = "from_documents"
    /\ frame' = [frame EXCEPT ![s] = NewFrame]
    /\ pc' = [pc EXCEPT ![s] = "idle"]
    /\ UNCHANGED << runs, script_globals, app_request_lock, pipeline_lock,
                    llm_cached, session_state, chroma, arrival >>

NextSplit == \E s \in Sessions : CreateChunks(s) \/ CreateChunksReturn(s)

SpecSplit == Init /\ [][NextSplit]_vars

\* Every thread of a script run keeps running: the scheduler is fair to each
\* session's steps, and every backend call returns or raises.
FairSpec == Spec /\ \A s \in Sessions : WF_vars(Step(s))

\* ----------------------------------------------------------- properties
InBackend(s) == pc[s] = "invoke"

\* between _app_request_lock.acquire() and .release()
InHandler(s) == pc[s] \in {"retrieve", "get_llm", "with_lock", "invoke", "finally"}

\* the try block of the handler is still running
InTryBlock(s) == pc[s] \in {"retrieve", "get_llm", "with_lock", "invoke"}

\* C1: at most one session is inside pipeline.invoke at any time
C1_MutualExclusion == Cardinality({ s \in Sessions : InBackend(s) }) <= 1

\* one session is in the backend while another waits at `with _pipeline_lock`
C1_Witness ==
    \E s, t \in Sessions : s # t /\ InBackend(s) /\ pc[t] = "with_lock"

\* C2: when a handler whose backend call failed exits, that session holds
\* neither _pipeline_lock nor its _app_request_lock
C2_GatesReleasedOnFailure ==
    [][\A s \in Sessions :
          (pc[s] = "finally" /\ frame[s].invoke_failed /\ pc'[s] = "done")
          => /\ pipeline_lock' # s
             /\ app_request_lock'[script_globals[s]] = NoSession]_vars

HasErrorReply(s) ==
    \/ \E i \in 1 .. Len(session_state[s].explain_history) :
          /\ session_state[s].explain_history[i].role = "assistant"
          /\ session_state[s].explain_history[i].text.kind = "error"
    \/ \E i \in 1 .. Len(session_state[s].rag_history) :
          /\ session_state[s].rag_history[i].role = "assistant"
          /\ session_state[s].rag_history[i].text.kind = "error"
    \/ \E i \in 1 .. Len(session_state[s].outputs) :
          session_state[s].outputs[i].text.kind = "error"

\* a failed request's handler has exited, and another session's request has
\* passed both gates and has its reply
C2_Witness ==
    \E s, t \in Sessions :
        /\ s # t
        /\ pc[s] = "done" /\ HasErrorReply(s)
        /\ pc[t] = "finally" /\ frame[t].reply.kind = "text"

\* C3: no agent call raises: a failure of the backend, get_llm() included,
\* comes back as an error value
C3_NoFaultEscapes == \A s \in Sessions : frame[s].exc # "get_llm"

\* C4: replies are produced in the order in which the handlers reached acquire()
C4_ArrivalOrder ==
    [][\A s \in Sessions :
          (pc[s] = "invoke" /\ pc'[s] = "finally") => Head(arrival) = s]_vars

\* a request that has passed the guards of its feature
Submitted(s) ==
    /\ pc[s] = "acquire"
    /\ frame[s].feature = Quiz =>
          (Strip(frame[s].widget) # <<>> \/ session_state[s].pdf_text # 0)

\* C5: every submitted request eventually has its reply
C5_EventualReply ==
    \A s \in Sessions : Submitted(s) ~> (frame[s].reply.kind # "none")

\* every submitted request's handler is eventually left (no caller stays
\* blocked on a gate)
EventuallyLeaves == \A s \in Sessions : Submitted(s) ~> (pc[s] = "done")

\* user entries and assistant entries alternate, a user entry first
Paired(history) ==
    /\ Len(history) % 2 = 0
    /\ \A i \in 1 .. Len(history) :
          history[i].role = (IF i % 2 = 1 THEN "user" ELSE "assistant")

\* C6: once the try block of a handler is over, every user entry of the
\* session's histories is followed by exactly one assistant entry
C6_ExactlyOneOutcome ==
    \A s \in Sessions :
        ~InTryBlock(s) => /\ Paired(session_state[s].explain_history)
                          /\ Paired(session_state[s].rag_history)

\* C7: however often a text is indexed, the index holds each chunk once
C7_IdempotentReindex == \A c \in AllChunks : chroma[c] <= 1

\* C8: at most one handler is between acquire() and release()
C8_ProcessWideGate == Cardinality({ s \in Sessions : InHandler(s) }) <= 1

AssistantCount(history) ==
    Cardinality({ i \in 1 .. Len(history) : history[i].role = "assistant" })

\* C9: when pipeline.invoke failed in an Explain or RAG request, the handler
\* reaches its finally clause with the agent's error text as the last,
\* assistant, entry after the request's user entry, the input uid advanced,
\* processed set and no exception pending
C9_FailureSurfacedAsReply ==
    \A s \in Sessions :
        (pc[s] = "finally" /\ frame[s].invoke_failed /\ frame[s].feature \in {Explain, Rag})
        => LET h == IF frame[s].feature = Explain
                    THEN session_state[s].explain_history
                    ELSE session_state[s].rag_history
               uid == IF frame[s].feature = Explain
                      THEN session_state[s].explain_input_uid
                      ELSE session_state[s].rag_input_uid
           IN /\ Len(h) >= 2
              /\ h[Len(h)].role = "assistant"
              /\ h[Len(h)].text.kind = "error"
              /\ h[Len(h)].text.agent = AgentOf(frame[s].feature)
              /\ h[Len(h)].text.cause \in Causes
              /\ h[Len(h) - 1] = UserEntry(frame[s].prompt.question)
              /\ uid = AssistantCount(h)
              /\ frame[s].processed
              /\ frame[s].exc = "none"

C9_Witness ==
    \E s \in Sessions :
        /\ pc[s] = "finally" /\ frame[s].invoke_failed /\ frame[s].feature = Rag
        /\ session_state[s].rag_input_uid = 1

ChunksOf(d) == { SplitText(d)[i] : i \in 1 .. Len(SplitText(d)) }

\* C10: when no indexing call is under way, the index holds all the chunks
\* of a document or none of them (as many entries of one chunk as of another)
C10_AllOrNothing ==
    (\A s \in Sessions : pc[s] # "from_documents")
    => \A d \in DocTexts : \A c1, c2 \in ChunksOf(d) : chroma[c1] = chroma[c2]


IndexIsEmpty == \A c \in AllChunks : chroma[c] = 0

EntriesIn(index) ==
    LET RECURSIVE Sum(_)
        Sum(S) == IF S = {} THEN 0
                  ELSE LET c == CHOOSE x \in S : TRUE IN index[c] + Sum(S \ {c})
    IN Sum(AllChunks)

C11_WitnessEmpty ==
    \E s \in Sessions : frame[s].num >= 1 /\ IndexIsEmpty


\* C12: a retrieval that fails during a RAG request is not a pending
\* exception of the handler: when the try block of a RAG handler is over
\* (for another reason than a failed get_llm, which is C3's), no exception is
\* pending and every user entry of rag_history has its assistant entry
C12_FailedRetrievalSurfaced ==
    \A s \in Sessions :
        (pc[s] = "finally" /\ frame[s].feature = Rag /\ frame[s].exc # "get_llm")
            => /\ frame[s].exc = "none"
               /\ Paired(session_state[s].rag_history)

\* the lock named _app_request_lock in the script run of session s
AppLockOf(s) == script_globals[s]

HoldsAppLock(s) == AppLockOf(s) # NoLock /\ app_request_lock[AppLockOf(s)] = s

HoldsPipelineLock(s) == pipeline_lock = s

\* C13: no session asks for a lock it holds: not for _app_request_lock at
\* acquire(), not for _pipeline_lock at `with _pipeline_lock`
C13_NoNestedAcquisition ==
    \A s \in Sessions :
        /\ pc[s] = "acquire" => ~HoldsAppLock(s)
        /\ pc[s] = "with_lock" => ~HoldsPipelineLock(s)

\* a session that holds _app_request_lock asks for _pipeline_lock in its
\* second request, after a first one that held and released it
C13_Witness ==
    \E s \in Sessions :
        /\ pc[s] = "with_lock"
        /\ HoldsAppLock(s)
        /\ Len(session_state[s].explain_history) >= 3


Last(seq) == seq[Len(seq)]

\* C14: the text an agent returns to a handler is the result of the
\* invocation made with that handler's own prompt, built from its own
\* session's input, and it is that text the handler appends to its own
\* session's history (after the session's own question) or outputs
C14_RepliesNotCrossed ==
    \A s \in Sessions :
        (pc[s] = "finally" /\ frame[s].reply.kind = "text") =>
            LET fr == frame[s]
                st == session_state[s]
            IN /\ fr.reply.prompt = fr.prompt
               /\ CASE fr.feature = Explain ->
                         /\ fr.prompt.question = Strip(fr.widget)
                         /\ Len(st.explain_history) >= 2
                         /\ Last(st.explain_history) = AssistantEntry(fr.reply)
                         /\ st.explain_history[Len(st.explain_history) - 1]
                                = UserEntry(fr.reply.prompt.question)
                    [] fr.feature = Rag ->
                         /\ fr.prompt.question = Strip(fr.widget)
                         /\ Len(st.rag_history) >= 2
                         /\ Last(st.rag_history) = AssistantEntry(fr.reply)
                         /\ st.rag_history[Len(st.rag_history) - 1]
                                = UserEntry(fr.reply.prompt.question)
                    [] fr.feature = Summarize ->
                         /\ fr.prompt.notes = Pdf(st.pdf_text)
                         /\ Last(st.outputs) = [tag |-> "summary", text |-> fr.reply]
                    [] fr.feature = Quiz ->
                         /\ fr.prompt.content \in {Typed(Strip(fr.widget)), Pdf(st.pdf_text)}
                         /\ Last(st.outputs) = [tag |-> "quiz", text |-> fr.reply]

\* a session has its reply while another session, which asked the same
\* agent with other parameters, is between its call and its own reply
C14_Witness ==
    \E s, t \in Sessions :
        /\ s # t
        /\ pc[s] = "finally"
        /\ frame[s].reply.kind = "text"
        /\ pc[t] \in {"with_lock", "invoke"}
        /\ frame[t].feature = frame[s].feature
        /\ frame[t].prompt # frame[s].prompt


\* the RAG handler of session s has its context and has not yet its reply
HasContext(s) ==
    frame[s].feature = Rag /\ pc[s] \in {"get_llm", "with_lock", "invoke"}

\* the context is the chunks, one after the other in their order, with the
\* paragraph separator between two of them and nowhere else
Composed(context, chunks) ==
    /\ Len(context) = (IF chunks = <<>> THEN 0 ELSE 2 * Len(chunks) - 1)
    /\ \A i \in 1 .. Len(chunks) : context[2 * i - 1] = chunks[i]
    /\ \A i \in 1 .. Len(chunks) - 1 : context[2 * i] = ParagraphSeparator

\* the step of a RAG handler from the retrieval to the agent call
C15_Retrieved ==
    \A s \in Sessions :
        (pc[s] = "retrieve" /\ pc'[s] = "get_llm") =>
            frame'[s].chunks
                = SimilaritySearch(chroma, Strip(frame[s].widget), RetrieveK)

\* C15: the chunks of a RAG request are those retrieve_relevant_chunks
\* returns for the request's question with k = 3, and the context given to
\* rag_answer_agent is their texts in that order joined by "\n\n": no chunk
\* dropped, doubled or moved, the empty string for no chunk
C15_ContextComposition ==
    /\ [](\A s \in Sessions :
             HasContext(s) =>
                 /\ Len(frame[s].chunks) <= RetrieveK
                 /\ Composed(frame[s].prompt.context, frame[s].chunks))
    /\ [][C15_Retrieved]_vars

\* a context made of three chunks
C15_Witness ==
    \E s \in Sessions : HasContext(s) /\ Len(frame[s].chunks) = RetrieveK

\* a context made of no chunk: the empty string
C15_WitnessEmpty ==
    \E s \in Sessions : HasContext(s) /\ frame[s].chunks = <<>>


\* the characters two chunks have in common: the end of a, the start of b
Shared(a, b) ==
    IF a.start + a.size > b.start THEN a.start + a.size - b.start ELSE 0

\* the text of a splitter call that has produced its chunks
Split(s) == pc[s] = "from_documents"

\* on a text without separators the slices are those of SplitText
SplitTextAgrees ==
    \A s \in Sessions :
        (Split(s) /\ Len(frame[s].text) = 1) =>
            LET old == SplitText(frame[s].text[1]) IN
            /\ Len(old) = Len(frame[s].chunks)
            /\ \A i \in 1 .. Len(old) :
                  /\ old[i].start = frame[s].chunks[i].start
                  /\ old[i].size = frame[s].chunks[i].size

Unfinished(s) == pc[s] = "acquire" \/ InHandler(s)

\* session s waits for a lock another session holds
Blocked(s) ==
    \/ pc[s] = "acquire" /\ ~LockFree(AppLockOf(s))
    \/ pc[s] = "with_lock" /\ ~PipelineLockFree

\* C17: a session that holds _pipeline_lock holds its _app_request_lock,
\* taken before; a session that waits for _app_request_lock holds no
\* _pipeline_lock; and whenever requests are under way, one of them is not
\* blocked on a lock
C17_DeadlockFreedom ==
    /\ \A s \in Sessions :
          /\ HoldsPipelineLock(s) => (HoldsAppLock(s) /\ pc[s] = "invoke")
          /\ pc[s] = "acquire" => ~HoldsPipelineLock(s)
    /\ (\E s \in Sessions : Unfinished(s))
          => \E s \in Sessions : Unfinished(s) /\ ~Blocked(s)

\* one session holds both locks while every other one holds its own
\* _app_request_lock and is blocked on _pipeline_lock
C17_Witness ==
    \E s \in Sessions :
        /\ HoldsAppLock(s) /\ HoldsPipelineLock(s)
        /\ \A t \in Sessions \ {s} : HoldsAppLock(t) /\ Blocked(t)


\* C18: llm_busy of a session is true only while a handler of the session
\* holds _app_request_lock, and false whenever no handler of the session is
\* running, whichever way the last one was left
C18_BusyFlag ==
    \A s \in Sessions :
        /\ session_state[s].llm_busy => (InHandler(s) /\ HoldsAppLock(s))
        /\ ~InHandler(s) => ~session_state[s].llm_busy

\* a handler about to leave through finally with an exception pending, the
\* flag still true and the lock held
C18_Witness ==
    \E s \in Sessions :
        /\ pc[s] = "finally"
        /\ frame[s].exc # "none"
        /\ session_state[s].llm_busy
        /\ HoldsAppLock(s)

\* a quiz handler about to leave after the warning for empty content
C18_WitnessQuizEmpty ==
    \E s \in Sessions :
        /\ pc[s] = "finally"
        /\ frame[s].feature = Quiz
        /\ frame[s].prompt = NoPrompt
        /\ ~session_state[s].llm_busy


\* the step in which a submission of session s is turned down, and the step
\* that ends the run after it
RejectStep(s) ==
    \/ pc[s] = "feature" /\ pc'[s] = "warning"
    \/ pc[s] = "warning" /\ pc'[s] # "warning"

\* C19: a submission that is turned down (Explain: blank, or llm_busy true;
\* RAG: blank) takes no lock, calls no backend and leaves the session's
\* histories, input uids and llm_busy as they were; the run then ends
C19_RejectedNoEffect ==
    [][\A s \in Sessions :
          /\ RejectStep(s) =>
                /\ session_state'[s] = session_state[s]
                /\ app_request_lock' = app_request_lock
                /\ pipeline_lock' = pipeline_lock
                /\ llm_cached' = llm_cached
                /\ arrival' = arrival
          /\ pc'[s] = "warning" =>
                \/ IsBlank(frame'[s].widget)
                \/ frame'[s].feature = Explain /\ session_state[s].llm_busy
          /\ (pc[s] = "warning" /\ pc'[s] # "warning") => pc'[s] = "done"]_vars

\* a blank Explain submission turned down in a session that has a history
C19_Witness ==
    \E s \in Sessions :
        /\ pc[s] = "warning"
        /\ frame[s].feature = Explain
        /\ IsBlank(frame[s].widget)
        /\ session_state[s].explain_history # <<>>
        /\ session_state[s].explain_input_uid > 0

\* a blank RAG submission turned down in a session that has a history
C19_WitnessRag ==
    \E s \in Sessions :
        /\ pc[s] = "warning"
        /\ frame[s].feature = Rag
        /\ session_state[s].rag_history # <<>>

\* an Explain submission turned down because llm_busy is true: no state
\* reaches it, since the runs of a session follow one another and every
\* handler leaves llm_busy false (C18_BusyFlag)
C19_RejectedWhileBusy ==
    \E s \in Sessions : pc[s] = "warning" /\ session_state[s].llm_busy

=============================================================================
